---- MODULE Spec2Model ----
(***************************************************************************)
(* A model of the KAYA frame-grabber binding: kyapi (the ctypes layer) and  *)
(* pykyfg.model (FrameGrabber, Camera, CameraStream and the default        *)
(* accumulating callback).  The native SDK is modelled as a mock that       *)
(* stores what it is given; its choices (which handle it returns, whether   *)
(* a call succeeds, which buffers it delivers and when) are inputs.         *)
(*                                                                         *)
(* Spec     : streams, callback handles, acquisition (caller thread and    *)
(*            the native callback thread).                                 *)
(* SpecDev  : frame grabber / camera handle lifecycle and enumeration.     *)
(***************************************************************************)
EXTENDS Integers, Sequences, FiniteSets, TLC

\* ---------------------------------------------------------------- bounds
NumStreams == 2        \* CameraStream objects alive at once
MaxStreamHandle == 2   \* native stream handles 1..MaxStreamHandle
MaxCallbacks == 2      \* CallbackHandle objects created in a run
MaxBuffers == 2        \* buffers the native layer delivers in a run
MaxRemoves == 2        \* explicit remove() calls per CallbackHandle
MaxFgHandle == 2       \* native frame grabber handles 1..MaxFgHandle
MaxScan == 2           \* cameras a scan of the native layer reports
RegSize == 2           \* bytes of the mock's REGISTER property
NumBufObjs == 2        \* Buffer objects constructed in a run
MaxBufHandle == 2      \* native buffer handles 1..MaxBufHandle
MaxInfoGen == 2        \* times the native layer refills one buffer, plus one
MaxQueries == 2        \* native buffer-info queries per object and attribute

\* ------------------------------------------------------- program values
None == -2             \* Python None in an integer-valued field
FailHandle == 0        \* the c_uint(0) open_stream returns untouched
NoObj == 0             \* a registry key that is absent
\* INVALID_FGHANDLE = 4294967295 = 0xFFFFFFFF, written as the 32-bit value it is
INVALID_FGHANDLE == -1

Streams == 1 .. NumStreams
StreamHandles == 1 .. MaxStreamHandle
HandleKeys == 0 .. MaxStreamHandle
CbIds == 1 .. MaxCallbacks
BufIds == 1 .. MaxBuffers
Paths == {"normal", "error", "interrupt"}
FgHandles == 1 .. MaxFgHandle
CamHandles == {7, 9}

VARIABLES
    \* CameraStream objects
    stHandle,      \* [Streams -> HandleKeys \cup {None}]   self.handle
    stCallbacks,   \* [Streams -> Seq(CbIds)]               self.callback_handles
    stFrames,      \* [Streams -> Seq(BufIds)]              self.frames
    stReg,         \* [HandleKeys -> Streams \cup {NoObj}]  CameraStream.registry()
    stScope,       \* [Streams -> {"out","body"}]           inside `with stream.open()`
    \* CallbackHandle objects
    nextCb,        \* next CallbackHandle to be created
    cbStream,      \* [CbIds -> handle]   CallbackHandle.stream_handle
    cbOwner,       \* [CbIds -> Streams \cup {NoObj}]  the stream the closure captured
    cbKind,        \* [CbIds -> {"none","default","user"}]
    cbRemoved,     \* [CbIds -> BOOLEAN]  CallbackHandle.removed
    \* the native layer
    natCallbacks,  \* callbacks registered in the native layer
    unregCalls,    \* [CbIds -> Nat] native unregister calls issued per callback
    natAcq,        \* acquisition running in the native layer
    \* Camera object
    camStream,     \* self.stream : Streams \cup {None}
    camWorking,    \* self.working
    camEndEvent,   \* self.end_event : "None" | "clear" | "set"
    \* caller thread
    pc,            \* "idle" | "cap_await" | "await_wait"
    last,          \* the last caller operation: [op, err, trace]
    \* native callback thread
    natPc,         \* "idle" | "dispatch" | "checked" | "finishing"
    natPending,    \* callbacks still to be invoked for the current buffer
    natCb,         \* the callback being run
    natBuf,        \* the buffer being delivered
    nextBuf,       \* next buffer id
    bufBase,       \* [BufIds -> {"none","null","addr"}]
    natErr,        \* an exception was raised on the native thread
    sentinelSeen,  \* the default callback met a null base in this acquisition
    \* FrameGrabber object, Camera object, kyapi scopes
    fgHandle,      \* FrameGrabber.handle
    fgReg,         \* keys of FrameGrabber.registry()
    fgScope,       \* "out" | "body" : inside `with fg.open()`
    natFgOpen,     \* frame grabber handles open in the native layer
    kyFg,          \* handle held by a connect_frame_grabber scope, or None
    camHandle,     \* Camera.handle (None: no Camera object yet)
    camReg,        \* keys of Camera.registry()
    camScope,      \* "out" | "body" : inside `with cam.open()`
    natCamOpen,    \* camera handles open in the native layer
    kyCam,         \* handle held by a connect_camera scope, or None
    \* typed property access (kyapi.cam / kyapi.fg) against a mock native layer
    natProp,       \* the mock's property cell: [dev, tag, raw]
    propArg,       \* the last set call: [dev, tag, val]
    propGot,       \* the get call, if the last property call was one: [dev, tag]
    propResult,    \* the value the last property call returned
    \* Buffer objects
    bufHandle,     \* [BufObjs -> native buffer handle | NoObj]  Buffer.handle
    bufCache,      \* [BufObjs -> [Attrs -> value | Miss]]  the functools.cache entries
    bufQueries,    \* [BufObjs -> [Attrs -> Nat]]  native buffer-info queries issued
    bufFirst,      \* [BufObjs -> [Attrs -> value | Miss]]  the value of the first query
    natInfo,       \* [BufHandles -> [Attrs -> value]]  what the native layer reports now
    bufRead        \* the last attribute read: [obj, attr, val]

streamVars == <<stHandle, stCallbacks, stFrames, stReg, stScope>>
cbVars == <<nextCb, cbStream, cbOwner, cbKind, cbRemoved>>
nativeVars == <<natCallbacks, unregCalls, natAcq>>
camVars == <<camStream, camWorking, camEndEvent>>
callerVars == <<pc, last>>
threadVars == <<natPc, natPending, natCb, natBuf, nextBuf, bufBase, natErr>>
acqVarsButLast == <<streamVars, cbVars, nativeVars, camVars, pc, threadVars, sentinelSeen>>
acqVars == <<acqVarsButLast, last>>

fgVars == <<fgHandle, fgReg, fgScope, natFgOpen, kyFg>>
devCamVars == <<camHandle, camReg, camScope, natCamOpen, kyCam>>
devVars == <<fgVars, devCamVars>>

propVars == <<natProp, propArg, propGot, propResult>>
bufObjVars == <<bufHandle, bufCache, bufQueries, bufFirst, natInfo, bufRead>>
auxVars == <<propVars, bufObjVars>>

vars == <<acqVars, devVars, auxVars>>

Op(op, err, trace) == [op |-> op, err |-> err, trace |-> trace]

InitAcq ==
    /\ stHandle = [s \in Streams |-> None]
    /\ stCallbacks = [s \in Streams |-> <<>>]
    /\ stFrames = [s \in Streams |-> <<>>]
    /\ stReg = [h \in HandleKeys |-> NoObj]
    /\ stScope = [s \in Streams |-> "out"]
    /\ nextCb = 1
    /\ cbStream = [c \in CbIds |-> None]
    /\ cbOwner = [c \in CbIds |-> NoObj]
    /\ cbKind = [c \in CbIds |-> "none"]
    /\ cbRemoved = [c \in CbIds |-> FALSE]
    /\ natCallbacks = {}
    /\ unregCalls = [c \in CbIds |-> 0]
    /\ natAcq = FALSE
    /\ camStream = None
    /\ camWorking = FALSE
    /\ camEndEvent = "None"
    /\ pc = "idle"
    /\ last = Op("init", "ok", <<>>)
    /\ natPc = "idle"
    /\ natPending = <<>>
    /\ natCb = NoObj
    /\ natBuf = NoObj
    /\ nextBuf = 1
    /\ bufBase = [b \in BufIds |-> "none"]
    /\ natErr = FALSE
    /\ sentinelSeen = FALSE

InitDev ==
    /\ fgHandle = None
    /\ fgReg = {}
    /\ fgScope = "out"
    /\ natFgOpen = {}
    /\ kyFg = None
    /\ camHandle = None
    /\ camReg = {}
    /\ camScope = "out"
    /\ natCamOpen = {}
    /\ kyCam = None

\* ------------------------------------------------------------- helpers
SeqToSet(q) == {q[i] : i \in DOMAIN q}

\* The free native stream handles: the mock hands out the lowest handle that
\* no wrapper, registry entry or registered callback still names.
FreeHandles ==
    {h \in StreamHandles :
        /\ \A s \in Streams : stHandle[s] # h
        /\ stReg[h] = NoObj
        /\ \A c \in natCallbacks : cbStream[c] # h}

\* What KYFG_StreamCreateAndAlloc may leave in the output slot.
AllocResults ==
    (IF FreeHandles = {} THEN {}
     ELSE {CHOOSE h \in FreeHandles : \A g \in FreeHandles : h <= g})
    \cup {FailHandle}

\* ------------------------------------------- kyapi.stream: callbacks
\* stream_buffer_callback_unregister, for each callback of the set cs: one
\* native call per callback; the mock forgets the callback.
stream_buffer_callback_unregister(cs) ==
    /\ natCallbacks' = natCallbacks \ cs
    /\ unregCalls' = [c \in CbIds |-> IF c \in cs THEN unregCalls[c] + 1 ELSE unregCalls[c]]

\* CallbackHandle.remove reaches the native call unless `removed` is set.
RemoveIssues(c) == ~cbRemoved[c]

\* CallbackHandle.remove: `removed` is read and never written.
remove(c) ==
    /\ IF RemoveIssues(c)
          THEN stream_buffer_callback_unregister({c})
          ELSE UNCHANGED <<natCallbacks, unregCalls>>
    /\ UNCHANGED cbRemoved

\* stream_buffer_callback_register + CameraStream.register_native_callback:
\* a new CallbackHandle for the stream's current handle, appended to the list.
\* The native registration takes effect only for a valid stream handle; with
\* the handle None the call is still made (ctypes passes NULL) and its status
\* is dropped, so a CallbackHandle is appended all the same.
register_native_callback(s, kind) ==
    /\ nextCb <= MaxCallbacks
    /\ cbStream' = [cbStream EXCEPT ![nextCb] = stHandle[s]]
    /\ cbOwner' = [cbOwner EXCEPT ![nextCb] = s]
    /\ cbKind' = [cbKind EXCEPT ![nextCb] = kind]
    /\ natCallbacks' = IF stHandle[s] \in StreamHandles
                          THEN natCallbacks \cup {nextCb} ELSE natCallbacks
    /\ stCallbacks' = [stCallbacks EXCEPT ![s] = Append(@, nextCb)]
    /\ nextCb' = nextCb + 1
    /\ UNCHANGED <<cbRemoved, unregCalls>>

\* ------------------------------------------- pykyfg.model: CameraStream
\* The native calls clear_callback issues, in list order.
ClearTrace(s) ==
    LET live == SelectSeq(stCallbacks[s], RemoveIssues)
    IN  [i \in 1 .. Len(live) |-> <<"unregister", live[i]>>]

\* Mutant: the list is cleared without remove() being called on its handles.
clear_callback_NoRemove(s) ==
    /\ stCallbacks' = [stCallbacks EXCEPT ![s] = <<>>]
    /\ UNCHANGED <<natCallbacks, unregCalls, cbRemoved>>

\* CameraStream.clear_callback: remove() on every handle, then clear the list.
clear_callback(s) ==
    /\ stream_buffer_callback_unregister({c \in SeqToSet(stCallbacks[s]) : RemoveIssues(c)})
    /\ stCallbacks' = [stCallbacks EXCEPT ![s] = <<>>]
    /\ UNCHANGED cbRemoved

\* `del self.registry()[self.handle]` finds its key.
KeyInRegistry(s) == stHandle[s] \in HandleKeys /\ stReg[stHandle[s]] # NoObj

\* CameraStream.allocate: the handle open_stream returns is stored unchecked.
allocate(s, h) ==
    /\ stHandle' = [stHandle EXCEPT ![s] = h]
    /\ stReg' = [stReg EXCEPT ![h] = s]

\* CameraStream.free: clear_callback, then the registry entry, then the handle.
\* A missing key raises KeyError after the callbacks are gone.
free(s) ==
    /\ clear_callback(s)
    /\ IF KeyInRegistry(s)
          THEN /\ stReg' = [stReg EXCEPT ![stHandle[s]] = NoObj]
               /\ stHandle' = [stHandle EXCEPT ![s] = None]
          ELSE UNCHANGED <<stReg, stHandle>>

FreeErr(s) == IF KeyInRegistry(s) THEN "ok" ELSE "KeyError"

\* The events of free, in program order.
FreeTrace(s) ==
    <<<<"free", s>>>> \o ClearTrace(s)
        \o (IF KeyInRegistry(s) THEN <<<<"release", stHandle[s]>>>> ELSE <<>>)

\* How a scope's exit ends: an error of the release wins, else the body's
\* exception is re-raised by contextlib.contextmanager.
PathErr(path) ==
    CASE path = "normal" -> "ok"
      [] path = "error" -> "Error"
      [] path = "interrupt" -> "KeyboardInterrupt"

ExitErr(relErr, path) == IF relErr # "ok" THEN relErr ELSE PathErr(path)

\* A slot that stands for a newly constructed CameraStream.
Pristine(s) ==
    /\ stHandle[s] = None
    /\ stCallbacks[s] = <<>>
    /\ stScope[s] = "out"
    /\ camStream # s
    /\ \A c \in natCallbacks : cbOwner[c] # s
    /\ natPc = "idle"

CallerIdle == pc = "idle"

\* --- the caller's operations on a CameraStream
StreamAllocate(s, h) ==
    /\ CallerIdle
    /\ camStream # s
    /\ stScope[s] = "out"
    /\ stHandle[s] = None
    /\ h \in AllocResults
    /\ allocate(s, h)
    /\ last' = Op("allocate", "ok", <<<<"alloc", h>>>>)
    /\ UNCHANGED <<stCallbacks, stFrames, stScope, cbVars, nativeVars, camVars,
                   pc, threadVars, sentinelSeen>>
    /\ UNCHANGED <<devVars, auxVars>>

StreamFree(s) ==
    /\ CallerIdle
    /\ camStream # s
    /\ stScope[s] = "out"
    /\ stHandle[s] # None
    /\ free(s)
    /\ last' = Op("free", FreeErr(s), FreeTrace(s))
    /\ UNCHANGED <<stFrames, stScope, nextCb, cbStream, cbOwner, cbKind, natAcq, camVars,
                   pc, threadVars, sentinelSeen>>
    /\ UNCHANGED <<devVars, auxVars>>

StreamOpenEnter(s, h) ==
    /\ CallerIdle
    /\ Pristine(s)
    /\ h \in AllocResults
    /\ allocate(s, h)
    /\ stScope' = [stScope EXCEPT ![s] = "body"]
    /\ stFrames' = [stFrames EXCEPT ![s] = <<>>]
    /\ last' = Op("CameraStream.open", "ok", <<<<"alloc", h>>>>)
    /\ UNCHANGED <<stCallbacks, cbVars, nativeVars, camVars, pc, threadVars, sentinelSeen>>
    /\ UNCHANGED <<devVars, auxVars>>

StreamOpenExit(s, path) ==
    /\ CallerIdle
    /\ stScope[s] = "body"
    /\ camStream # s
    /\ free(s)
    /\ stScope' = [stScope EXCEPT ![s] = "out"]
    /\ last' = Op("CameraStream.open.exit", ExitErr(FreeErr(s), path),
                  <<<<"exit", s>>>> \o FreeTrace(s))
    /\ UNCHANGED <<stFrames, nextCb, cbStream, cbOwner, cbKind, natAcq, camVars,
                   pc, threadVars, sentinelSeen>>
    /\ UNCHANGED <<devVars, auxVars>>

RegisterCallback(s, kind) ==
    /\ CallerIdle
    /\ register_native_callback(s, kind)
    /\ last' = Op("register_callback", "ok", <<<<"register", nextCb>>>>)
    /\ UNCHANGED <<stHandle, stFrames, stReg, stScope, natAcq, camVars,
                   pc, threadVars, sentinelSeen>>
    /\ UNCHANGED <<devVars, auxVars>>

ClearCallback(s) ==
    /\ CallerIdle
    /\ stCallbacks[s] # <<>>
    /\ clear_callback(s)
    /\ last' = Op("clear_callback", "ok", ClearTrace(s))
    /\ UNCHANGED <<stHandle, stFrames, stReg, stScope, nextCb, cbStream, cbOwner, cbKind,
                   natAcq, camVars, pc, threadVars, sentinelSeen>>
    /\ UNCHANGED <<devVars, auxVars>>

Remove(c) ==
    /\ CallerIdle
    /\ cbKind[c] # "none"
    /\ unregCalls[c] < MaxRemoves
    /\ remove(c)
    /\ last' = Op("remove", "ok",
                  IF RemoveIssues(c) THEN <<<<"unregister", c>>>> ELSE <<>>)
    /\ UNCHANGED <<streamVars, nextCb, cbStream, cbOwner, cbKind, natAcq, camVars,
                   pc, threadVars, sentinelSeen>>
    /\ UNCHANGED <<devVars, auxVars>>

\* ------------------------------------------------ pykyfg.model: Camera
\* Mutant: open_stream without its `self.stream is not None` guard.
OpenStreamErr_NoCheck == "ok"

\* Camera.open_stream: the guard, then `with CameraStream(self, frames).open()`
\* around `self.stream = stream`.
OpenStreamErr == IF camStream # None THEN "StreamBusy" ELSE "ok"

OpenStreamEnter(s, h) ==
    /\ CallerIdle
    /\ IF OpenStreamErr # "ok"
          THEN /\ last' = Op("open_stream", OpenStreamErr, <<>>)
               /\ UNCHANGED <<streamVars, camVars>>
          ELSE /\ Pristine(s)
               /\ \A r \in Streams : Pristine(r) => s <= r
               /\ h \in AllocResults
               /\ allocate(s, h)
               /\ stScope' = [stScope EXCEPT ![s] = "body"]
               /\ stFrames' = [stFrames EXCEPT ![s] = <<>>]
               /\ camStream' = s
               /\ last' = Op("open_stream", "ok", <<<<"alloc", h>>>>)
               /\ UNCHANGED <<stCallbacks, camWorking, camEndEvent>>
    /\ UNCHANGED <<cbVars, nativeVars, pc, threadVars, sentinelSeen>>
    /\ UNCHANGED <<devVars, auxVars>>

\* Leaving the open_stream scope: `self.stream = None`, then the stream's free.
OpenStreamExit(path) ==
    /\ CallerIdle
    /\ camStream # None
    /\ camStream' = None
    /\ free(camStream)
    /\ stScope' = [stScope EXCEPT ![camStream] = "out"]
    /\ last' = Op("open_stream.exit", ExitErr(FreeErr(camStream), path),
                  <<<<"exit", camStream>>>> \o FreeTrace(camStream))
    /\ UNCHANGED <<stFrames, nextCb, cbStream, cbOwner, cbKind, natAcq, camWorking,
                   camEndEvent, pc, threadVars, sentinelSeen>>
    /\ UNCHANGED <<devVars, auxVars>>

\* Mutant: start without its `self.working` guard.
StartErr_NoWorkingCheck == IF camStream = None THEN "NoStream" ELSE "ok"

\* Camera.start
StartErr ==
    IF camWorking THEN "AlreadyWorking"
    ELSE IF camStream = None THEN "NoStream" ELSE "ok"

\* Mutant: start installs the default callback whenever it is asked for, without
\* looking at the callbacks the stream already has.
NeedDefault_Always(use_default_callback) == use_default_callback

NeedDefault(use_default_callback) ==
    Len(stCallbacks[camStream]) = 0 /\ use_default_callback

start(use_default_callback, block) ==
    IF StartErr # "ok"
    THEN UNCHANGED <<cbVars, natCallbacks, unregCalls, stCallbacks, camWorking,
                     camEndEvent, natAcq, sentinelSeen>>
    ELSE /\ IF NeedDefault(use_default_callback)
               THEN register_native_callback(camStream, "default")
               ELSE UNCHANGED <<cbVars, natCallbacks, unregCalls, stCallbacks>>
         /\ camWorking' = TRUE
         /\ camEndEvent' = IF block THEN "clear" ELSE camEndEvent
         /\ natAcq' = TRUE
         /\ sentinelSeen' = FALSE

StartTrace(use_default_callback, block) ==
    IF StartErr # "ok" THEN <<>>
    ELSE (IF NeedDefault(use_default_callback) THEN <<<<"register", nextCb>>>> ELSE <<>>)
         \o <<<<"start", stHandle[camStream]>>>>

\* Mutant: stop without its `not self.working` guard.
StopErr_NoCheck == "ok"

\* Camera.stop
StopErr == IF ~camWorking THEN "NotWorking" ELSE "ok"

stop ==
    IF StopErr # "ok"
    THEN UNCHANGED <<natAcq, camEndEvent, camWorking>>
    ELSE /\ natAcq' = FALSE
         /\ camEndEvent' = "None"
         /\ camWorking' = FALSE

StopTrace == IF StopErr # "ok" THEN <<>> ELSE <<<<"stop", 0>>>>

Start(use_default_callback, block) ==
    /\ CallerIdle
    /\ start(use_default_callback, block)
    /\ last' = Op("start", StartErr, StartTrace(use_default_callback, block))
    /\ UNCHANGED <<stHandle, stFrames, stReg, stScope, camStream, pc, threadVars>>
    /\ UNCHANGED <<devVars, auxVars>>

Stop ==
    /\ CallerIdle
    /\ stop
    /\ last' = Op("stop", StopErr, StopTrace)
    /\ UNCHANGED <<streamVars, cbVars, natCallbacks, unregCalls, camStream, pc,
                   threadVars, sentinelSeen>>
    /\ UNCHANGED <<devVars, auxVars>>

\* How a blocking Event.wait ends.
WaitOutcomes == {"set", "timeout", "interrupt", "error"}

WaitMayEnd(outcome) == outcome = "set" => camEndEvent = "set"

WaitErr(outcome) ==
    CASE outcome = "interrupt" -> "KeyboardInterrupt"
      [] outcome = "error" -> "Error"
      [] OTHER -> "ok"

\* Camera.await_acquisition: returns at once without an end_event, else blocks.
AwaitBegin ==
    /\ CallerIdle
    /\ IF camEndEvent = "None"
          THEN /\ last' = Op("await_acquisition", "ok", <<>>)
               /\ pc' = pc
          ELSE /\ last' = Op("await_acquisition", "waiting", <<>>)
               /\ pc' = "await_wait"
    /\ UNCHANGED <<streamVars, cbVars, nativeVars, camVars, threadVars, sentinelSeen>>
    /\ UNCHANGED <<devVars, auxVars>>

AwaitEnd(outcome) ==
    /\ pc = "await_wait"
    /\ WaitMayEnd(outcome)
    /\ pc' = "idle"
    /\ last' = Op("await_acquisition", WaitErr(outcome), <<<<outcome, 0>>>>)
    /\ UNCHANGED <<streamVars, cbVars, nativeVars, camVars, threadVars, sentinelSeen>>
    /\ UNCHANGED <<devVars, auxVars>>

\* Camera.capture, up to the wait: start(n_frame, block=block).  When start
\* raises, the finally clause runs stop() at once and the call ends: with the
\* error of start, or with the error of stop if stop raises too.
CaptureStart(block) ==
    /\ CallerIdle
    /\ IF StartErr = "ok"
          THEN /\ start(TRUE, block)
               /\ pc' = "cap_await"
               /\ last' = Op("capture", "running", StartTrace(TRUE, block))
          ELSE /\ stop
               /\ pc' = pc
               /\ last' = Op("capture", IF StopErr # "ok" THEN StopErr ELSE StartErr,
                             StopTrace)
               /\ UNCHANGED <<cbVars, natCallbacks, unregCalls, stCallbacks, sentinelSeen>>
    /\ UNCHANGED <<stHandle, stFrames, stReg, stScope, camStream, threadVars>>
    /\ UNCHANGED <<devVars, auxVars>>

\* Mutant: the except clause re-raises the KeyboardInterrupt.
CaptureHandled_Reraise(outcome) == WaitErr(outcome)

\* What the except clause of capture lets through.
CaptureHandled(outcome) == IF outcome = "interrupt" THEN "ok" ELSE WaitErr(outcome)

\* The events of capture after the wait ended: the except clause, the finally clause.
CaptureTail(outcome) ==
    <<<<outcome, 0>>>>
        \o (IF outcome = "interrupt" THEN <<<<"print", 0>>>> ELSE <<>>)
        \o StopTrace

\* Mutant: stop() after the try statement instead of in a finally clause, so
\* that an error of the wait skips it.
CaptureEnd_NoFinally(outcome) ==
    /\ pc = "cap_await"
    /\ IF camEndEvent = "None" THEN outcome = "nowait"
          ELSE outcome \in WaitOutcomes /\ WaitMayEnd(outcome)
    /\ IF outcome = "error" THEN UNCHANGED <<natAcq, camEndEvent, camWorking>> ELSE stop
    /\ pc' = "idle"
    /\ last' = Op("capture", CaptureHandled(outcome),
                  last.trace \o <<<<outcome, 0>>>>
                      \o (IF outcome = "interrupt" THEN <<<<"print", 0>>>> ELSE <<>>)
                      \o (IF outcome = "error" THEN <<>> ELSE StopTrace))
    /\ UNCHANGED <<streamVars, cbVars, natCallbacks, unregCalls, camStream,
                   threadVars, sentinelSeen>>
    /\ UNCHANGED <<devVars, auxVars>>

\* Camera.capture, from the wait on: await_acquisition returns (at once when
\* start did not block) or raises; except KeyboardInterrupt prints; finally
\* stop(); return self.stream.frames.
CaptureEnd(outcome) ==
    /\ pc = "cap_await"
    /\ IF camEndEvent = "None" THEN outcome = "nowait"
          ELSE outcome \in WaitOutcomes /\ WaitMayEnd(outcome)
    /\ stop
    /\ pc' = "idle"
    /\ last' = Op("capture",
                  IF StopErr # "ok" THEN StopErr ELSE CaptureHandled(outcome),
                  last.trace \o CaptureTail(outcome))
    /\ UNCHANGED <<streamVars, cbVars, natCallbacks, unregCalls, camStream,
                   threadVars, sentinelSeen>>
    /\ UNCHANGED <<devVars, auxVars>>

\* ------------------------------------------ the native callback thread
\* The callbacks registered for stream handle h, in registration order.
RECURSIVE SortedSeq(_)
SortedSeq(S) ==
    IF S = {} THEN <<>>
    ELSE LET m == CHOOSE x \in S : \A y \in S : x <= y
         IN  <<m>> \o SortedSeq(S \ {m})

RegisteredFor(h) == SortedSeq({c \in natCallbacks : cbStream[c] = h})

AfterCallback(rest) == IF rest = <<>> THEN "idle" ELSE "dispatch"

\* The native layer completes a buffer of stream h and will call every
\* callback registered for h, on its own thread.
NativeDeliver(h, base) ==
    /\ natPc = "idle"
    /\ nextBuf <= MaxBuffers
    /\ RegisteredFor(h) # <<>>
    /\ natPending' = RegisteredFor(h)
    /\ natBuf' = nextBuf
    /\ nextBuf' = nextBuf + 1
    /\ bufBase' = [bufBase EXCEPT ![nextBuf] = base]
    /\ natPc' = "dispatch"
    /\ UNCHANGED <<streamVars, cbVars, nativeVars, camVars, callerVars, natCb, natErr,
                   sentinelSeen>>
    /\ UNCHANGED <<devVars, auxVars>>

\* The trampoline enters the next callback.  A user handler does nothing the
\* model sees; multi_frame_default_callback first reads stream.cam.working.
CallbackEnter ==
    /\ natPc = "dispatch"
    /\ natPending # <<>>
    /\ LET c == Head(natPending)
           rest == Tail(natPending)
       IN  /\ natPending' = rest
           /\ IF cbKind[c] = "default" /\ camWorking
                 THEN natPc' = "checked" /\ natCb' = c
                 ELSE natPc' = AfterCallback(rest) /\ natCb' = natCb
    /\ UNCHANGED <<streamVars, cbVars, nativeVars, camVars, callerVars, natBuf, nextBuf,
                   bufBase, natErr, sentinelSeen>>
    /\ UNCHANGED <<devVars, auxVars>>

\* multi_frame_default_callback after the working check: a null base calls
\* finish_acquisition (its `end_event is None` test), any other base appends
\* the image to stream.frames.
CallbackBody ==
    /\ natPc = "checked"
    /\ IF bufBase[natBuf] = "null"
          THEN /\ sentinelSeen' = TRUE
               /\ natPc' = IF camEndEvent = "None" THEN AfterCallback(natPending)
                           ELSE "finishing"
               /\ UNCHANGED stFrames
          ELSE /\ stFrames' = [stFrames EXCEPT ![cbOwner[natCb]] = Append(@, natBuf)]
               /\ natPc' = AfterCallback(natPending)
               /\ UNCHANGED sentinelSeen
    /\ UNCHANGED <<stHandle, stCallbacks, stReg, stScope, cbVars, nativeVars, camVars,
                   callerVars, natPending, natCb, natBuf, nextBuf, bufBase, natErr>>
    /\ UNCHANGED <<devVars, auxVars>>

\* finish_acquisition, second read of self.end_event: `self.end_event.set()`.
\* If stop() cleared the attribute in between, the call is made on None.
FinishSet ==
    /\ natPc = "finishing"
    /\ IF camEndEvent = "None"
          THEN natErr' = TRUE /\ UNCHANGED camEndEvent
          ELSE camEndEvent' = "set" /\ UNCHANGED natErr
    /\ natPc' = AfterCallback(natPending)
    /\ UNCHANGED <<streamVars, cbVars, nativeVars, camStream, camWorking, callerVars,
                   natPending, natCb, natBuf, nextBuf, bufBase, sentinelSeen>>
    /\ UNCHANGED <<devVars, auxVars>>

\* ----------------------------------------- kyapi.fg / kyapi.cam: devices
\* What KYFG_Open may return: the lowest handle not open, or the sentinel.
NativeOpenResults ==
    (IF FgHandles \ natFgOpen = {} THEN {}
     ELSE {CHOOSE h \in FgHandles \ natFgOpen : \A g \in FgHandles \ natFgOpen : h <= g})
    \cup {INVALID_FGHANDLE}

\* open_frame_grabber raises on the sentinel.
OpenFgErr(h) == IF h = INVALID_FGHANDLE THEN "KYException" ELSE "ok"

\* What KYFG_UpdateCameraList may report: up to MaxScan distinct handles.
ScanResults ==
    UNION {{q \in [1 .. n -> CamHandles] : \A i, j \in 1 .. n : i # j => q[i] # q[j]}
           : n \in 0 .. MaxScan}

Indexes == {-1, 0, 1}

\* Python's list indexing, for an index in range.
InRange(q, i) == -Len(q) <= i /\ i < Len(q)
PyIndex(q, i) == IF i >= 0 THEN q[i + 1] ELSE q[Len(q) + i + 1]

\* Mutant: the test is `len(cam_handles) < 1`.
EnumErr_AtLeastOne(fg_handle, scan, index) ==
    IF fg_handle = None THEN "TypeError"
    ELSE IF Len(scan) < 1 THEN "AmbiguousDevice"
    ELSE IF ~InRange(scan, index) THEN "IndexError"
    ELSE "ok"

\* FrameGrabber.get_camera / connect_camera up to the choice of the handle:
\* the scan, the `len(cam_handles) != 1` test, `cam_handles[index]`.
EnumErr(fg_handle, scan, index) ==
    IF fg_handle = None THEN "TypeError"
    ELSE IF Len(scan) # 1 THEN "AmbiguousDevice"
    ELSE IF ~InRange(scan, index) THEN "IndexError"
    ELSE "ok"

\* The events of an enumeration: the scan, what it found, the index asked for.
ScanTrace(scan, index) ==
    <<<<"scan", Len(scan)>>>>
        \o [i \in 1 .. Len(scan) |-> <<"found", scan[i]>>]
        \o <<<<"index", index>>>>

\* connect_frame_grabber: open, yield, finally close.
KyConnectFgEnter(h) ==
    /\ CallerIdle
    /\ kyFg = None
    /\ h \in NativeOpenResults
    /\ IF OpenFgErr(h) = "ok"
          THEN natFgOpen' = natFgOpen \cup {h} /\ kyFg' = h
          ELSE UNCHANGED <<natFgOpen, kyFg>>
    /\ last' = Op("connect_frame_grabber", OpenFgErr(h), <<<<"KYFG_Open", h>>>>)
    /\ UNCHANGED <<auxVars, acqVarsButLast, fgHandle, fgReg, fgScope, devCamVars>>

KyConnectFgExit(path) ==
    /\ CallerIdle
    /\ kyFg # None
    /\ kyCam = None
    /\ natFgOpen' = natFgOpen \ {kyFg}
    /\ kyFg' = None
    /\ last' = Op("connect_frame_grabber.exit", PathErr(path),
                  <<<<"exit", 0>>, <<"KYFG_Close", kyFg>>>>)
    /\ UNCHANGED <<auxVars, acqVarsButLast, fgHandle, fgReg, fgScope, devCamVars>>

\* connect_camera: scan, test, index, open_camera, yield, finally close_camera.
KyConnectCamEnter(scan, cam_idx, ok) ==
    /\ CallerIdle
    /\ kyFg # None
    /\ kyCam = None
    /\ IF EnumErr(kyFg, scan, cam_idx) = "ok"
          THEN /\ kyCam' = PyIndex(scan, cam_idx)
               /\ natCamOpen' = IF ok THEN natCamOpen \cup {PyIndex(scan, cam_idx)}
                                ELSE natCamOpen
               /\ last' = Op("connect_camera", "ok",
                             ScanTrace(scan, cam_idx)
                                 \o <<<<"KYFG_CameraOpen2", PyIndex(scan, cam_idx)>>>>)
          ELSE /\ UNCHANGED <<kyCam, natCamOpen>>
               /\ last' = Op("connect_camera", EnumErr(kyFg, scan, cam_idx),
                             ScanTrace(scan, cam_idx))
    /\ UNCHANGED <<auxVars, acqVarsButLast, fgVars, camHandle, camReg, camScope>>

KyConnectCamExit(path) ==
    /\ CallerIdle
    /\ kyCam # None
    /\ natCamOpen' = natCamOpen \ {kyCam}
    /\ kyCam' = None
    /\ last' = Op("connect_camera.exit", PathErr(path),
                  <<<<"exit", 0>>, <<"KYFG_CameraClose", kyCam>>>>)
    /\ UNCHANGED <<auxVars, acqVarsButLast, fgVars, camHandle, camReg, camScope>>

\* ------------------------------------------ pykyfg.model: FrameGrabber
\* FrameGrabber.connect: the handle is stored and registered unless open raised.
fg_connect(h) ==
    IF OpenFgErr(h) = "ok"
    THEN /\ natFgOpen' = natFgOpen \cup {h}
         /\ fgHandle' = h
         /\ fgReg' = fgReg \cup {h}
    ELSE UNCHANGED <<natFgOpen, fgHandle, fgReg>>

\* FrameGrabber.disconnect: close_frame_grabber (TypeError on None), the
\* registry entry (KeyError if absent), then the handle.
FgDisconnectErr ==
    IF fgHandle = None THEN "TypeError"
    ELSE IF fgHandle \notin fgReg THEN "KeyError" ELSE "ok"

fg_disconnect ==
    /\ natFgOpen' = IF fgHandle = None THEN natFgOpen ELSE natFgOpen \ {fgHandle}
    /\ IF FgDisconnectErr = "ok"
          THEN fgReg' = fgReg \ {fgHandle} /\ fgHandle' = None
          ELSE UNCHANGED <<fgReg, fgHandle>>

FgDisconnectTrace ==
    <<<<"disconnect", fgHandle>>>>
        \o (IF fgHandle = None THEN <<>> ELSE <<<<"KYFG_Close", fgHandle>>>>)

FgConnect(h) ==
    /\ CallerIdle
    /\ fgScope = "out"
    /\ h \in NativeOpenResults
    /\ fg_connect(h)
    /\ last' = Op("FrameGrabber.connect", OpenFgErr(h), <<<<"KYFG_Open", h>>>>)
    /\ UNCHANGED <<auxVars, acqVarsButLast, fgScope, kyFg, devCamVars>>

FgDisconnect ==
    /\ CallerIdle
    /\ fgScope = "out"
    /\ fg_disconnect
    /\ last' = Op("FrameGrabber.disconnect", FgDisconnectErr, FgDisconnectTrace)
    /\ UNCHANGED <<auxVars, acqVarsButLast, fgScope, kyFg, devCamVars>>

\* Mutant: disconnect after the yield without try/finally, so that only a
\* normal exit of the body reaches it.
FgOpenExit_NoFinally(path) ==
    /\ CallerIdle
    /\ fgScope = "body"
    /\ IF path = "normal" THEN fg_disconnect ELSE UNCHANGED <<natFgOpen, fgReg, fgHandle>>
    /\ fgScope' = "out"
    /\ last' = Op("FrameGrabber.open.exit", PathErr(path),
                  <<<<"exit", 0>>>> \o (IF path = "normal" THEN FgDisconnectTrace ELSE <<>>))
    /\ UNCHANGED <<auxVars, acqVarsButLast, kyFg, devCamVars>>

\* FrameGrabber.open: connect, yield, finally disconnect.
FgOpenEnter(h) ==
    /\ CallerIdle
    /\ fgScope = "out"
    /\ h \in NativeOpenResults
    /\ fg_connect(h)
    /\ fgScope' = IF OpenFgErr(h) = "ok" THEN "body" ELSE fgScope
    /\ last' = Op("FrameGrabber.open", OpenFgErr(h), <<<<"KYFG_Open", h>>>>)
    /\ UNCHANGED <<auxVars, acqVarsButLast, kyFg, devCamVars>>

FgOpenExit(path) ==
    /\ CallerIdle
    /\ fgScope = "body"
    /\ fg_disconnect
    /\ fgScope' = "out"
    /\ last' = Op("FrameGrabber.open.exit", ExitErr(FgDisconnectErr, path),
                  <<<<"exit", 0>>>> \o FgDisconnectTrace)
    /\ UNCHANGED <<auxVars, acqVarsButLast, kyFg, devCamVars>>

\* FrameGrabber.get_camera: a new Camera object for the one handle scanned.
GetCamera(scan, index) ==
    /\ CallerIdle
    /\ camScope = "out"
    /\ camHandle' = IF EnumErr(fgHandle, scan, index) = "ok"
                       THEN PyIndex(scan, index) ELSE camHandle
    /\ last' = Op("get_camera", EnumErr(fgHandle, scan, index),
                  IF fgHandle = None THEN <<>> ELSE ScanTrace(scan, index))
    /\ UNCHANGED <<auxVars, acqVarsButLast, fgVars, camReg, camScope, natCamOpen, kyCam>>

\* ------------------------------------------------ pykyfg.model: Camera
\* Camera.connect: open_camera (its status is dropped), then the registry.
cam_connect(ok) ==
    /\ natCamOpen' = IF ok THEN natCamOpen \cup {camHandle} ELSE natCamOpen
    /\ camReg' = camReg \cup {camHandle}

\* Camera.disconnect: close_camera, then the registry entry; the handle stays.
CamDisconnectErr == IF camHandle \notin camReg THEN "KeyError" ELSE "ok"

cam_disconnect ==
    /\ natCamOpen' = natCamOpen \ {camHandle}
    /\ camReg' = camReg \ {camHandle}

CamDisconnectTrace == <<<<"disconnect", camHandle>>, <<"KYFG_CameraClose", camHandle>>>>

CamConnect(ok) ==
    /\ CallerIdle
    /\ camHandle # None
    /\ camScope = "out"
    /\ cam_connect(ok)
    /\ last' = Op("Camera.connect", "ok", <<<<"KYFG_CameraOpen2", camHandle>>>>)
    /\ UNCHANGED <<auxVars, acqVarsButLast, fgVars, camHandle, camScope, kyCam>>

CamDisconnect ==
    /\ CallerIdle
    /\ camHandle # None
    /\ camScope = "out"
    /\ cam_disconnect
    /\ last' = Op("Camera.disconnect", CamDisconnectErr, CamDisconnectTrace)
    /\ UNCHANGED <<auxVars, acqVarsButLast, fgVars, camHandle, camScope, kyCam>>

\* Camera.open: connect, yield, finally disconnect.
CamOpenEnter(ok) ==
    /\ CallerIdle
    /\ camHandle # None
    /\ camScope = "out"
    /\ cam_connect(ok)
    /\ camScope' = "body"
    /\ last' = Op("Camera.open", "ok", <<<<"KYFG_CameraOpen2", camHandle>>>>)
    /\ UNCHANGED <<auxVars, acqVarsButLast, fgVars, camHandle, kyCam>>

CamOpenExit(path) ==
    /\ CallerIdle
    /\ camScope = "body"
    /\ cam_disconnect
    /\ camScope' = "out"
    /\ last' = Op("Camera.open.exit", ExitErr(CamDisconnectErr, path),
                  <<<<"exit", 0>>>> \o CamDisconnectTrace)
    /\ UNCHANGED <<auxVars, acqVarsButLast, fgVars, camHandle, kyCam>>

\* ------------------------- kyapi.cam / kyapi.fg: typed property access
\* The two property paths and the type tags the dispatch distinguishes.
Devs == {"cam", "fg"}
Tags == {"INT", "FLOAT", "BOOL", "STRING", "ENUM", "COMMAND", "REGISTER", "UNKNOWN"}

\* A Python value: its type and its content as a sequence of numbers (one
\* number for int, bool and float -- floats in tenths --, the characters or
\* bytes for str, bytes and list, the integer then the name for an enum pair).
PyVal(ty, v) == [ty |-> ty, v |-> v]
NoneVal == PyVal("NoneType", <<>>)

\* The enumerators of the mock's ENUM property: i is named EnumSymbols[i + 1]
\* ("Off", "On").
EnumSymbols == <<<<79, 102, 102>>, <<79, 110>>>>
IsEnumInt(i) == i + 1 \in DOMAIN EnumSymbols
EnumName(i) == IF IsEnumInt(i) THEN EnumSymbols[i + 1] ELSE <<>>
IsEnumName(name) == \E i \in DOMAIN EnumSymbols : EnumSymbols[i] = name
EnumValue(name) == (CHOOSE i \in DOMAIN EnumSymbols : EnumSymbols[i] = name) - 1
EnumPair(i) == PyVal("tuple", <<i>> \o EnumName(i))

\* The values callers pass: an int, a bool, a float, strings (one with an
\* embedded NUL), byte strings, a list, an enum pair, None.
PyVals ==
    {PyVal("int", <<1>>), PyVal("bool", <<1>>),
     PyVal("float", <<15>>), PyVal("str", <<79, 110>>), PyVal("str", <<97, 0, 98>>),
     PyVal("bytes", <<1, 2>>), PyVal("bytes", <<1>>), PyVal("list", <<1, 2>>),
     EnumPair(1), NoneVal}

\* isinstance(value, int): bool is a subclass of int.
IsInt(val) == val.ty \in {"int", "bool"}

\* What a char* argument carries: the bytes before the first NUL.
RECURSIVE CStr(_)
CStr(q) == IF q = <<>> \/ Head(q) = 0 THEN <<>> ELSE <<Head(q)>> \o CStr(Tail(q))

\* create_string_buffer(value, size): the bytes, zero-filled up to size.
Pad(q, n) == [i \in 1 .. n |-> IF i <= Len(q) THEN q[i] ELSE 0]

\* What the mock reports for a property nobody has set.
DefaultRaw(tag) == IF tag = "REGISTER" THEN Pad(<<>>, RegSize)
                   ELSE IF tag = "STRING" THEN <<>> ELSE <<0>>

\* The native get calls: the mock returns what it stores.
NativeRead(dev, tag) ==
    IF natProp.dev = dev /\ natProp.tag = tag THEN natProp.raw ELSE DefaultRaw(tag)

\* The truth value bool() gives a native byte.
Truth(raw) == <<IF raw[1] # 0 THEN 1 ELSE 0>>

\* get_grabber_value / set_grabber_value: get_grabber_value_type returns one
\* int, which `(status, valueType) = ...` cannot unpack.
UnpackErr == "TypeError"

\* get_camera_feature: the value built for the tag resolved.  ENUM makes two
\* reads, the integer and then the symbolic name of what the mock stores.
get_camera_feature(tag) ==
    LET raw == NativeRead("cam", tag)
    IN  CASE tag = "INT" -> PyVal("int", raw)
          [] tag = "ENUM" -> PyVal("tuple", <<raw[1]>> \o EnumName(raw[1]))
          [] tag = "BOOL" -> PyVal("bool", Truth(raw))
          [] tag = "FLOAT" -> PyVal("float", raw)
          [] tag = "STRING" -> PyVal("str", CStr(raw))
          [] tag = "COMMAND" -> PyVal("bool", Truth(raw))
          [] tag = "REGISTER" -> PyVal("bytes", raw)
          [] OTHER -> NoneVal

GetErr(dev) == IF dev = "fg" THEN UnpackErr ELSE "ok"

\* The native value reads one get issues after the type query.
NativeGets(tag) ==
    CASE tag = "ENUM" -> 3
      [] tag \in {"STRING", "REGISTER"} -> 2
      [] tag = "UNKNOWN" -> 0
      [] OTHER -> 1

GetTrace(dev, tag) ==
    <<<<"type_query", 0>>>>
        \o (IF dev = "fg" THEN <<>> ELSE [i \in 1 .. NativeGets(tag) |-> <<"native_get", i>>])

\* set_camera_feature: the isinstance test of the branch taken.
Validates(tag, val) ==
    CASE tag \in {"INT", "COMMAND"} -> IsInt(val)
      [] tag = "ENUM" -> IsInt(val) \/ val.ty = "str"
      [] tag = "BOOL" -> val.ty = "bool"
      [] tag = "FLOAT" -> val.ty = "float"
      [] tag = "STRING" -> val.ty = "str"
      [] tag = "REGISTER" -> val.ty \in {"bytes", "bytearray", "list"}
      [] OTHER -> TRUE

\* kyfg_set_camera_value_register: create_string_buffer(value, size) takes
\* bytes no longer than size.
SetValueErr(tag, val) ==
    IF ~Validates(tag, val) THEN "TypeError"
    ELSE IF tag = "REGISTER" /\ val.ty # "bytes" THEN "TypeError"
    ELSE IF tag = "REGISTER" /\ Len(val.v) > RegSize THEN "ValueError"
    ELSE "ok"

SetErr(dev, tag, val) == IF dev = "fg" THEN UnpackErr ELSE SetValueErr(tag, val)

IssuesNativeSet(dev, tag, val) ==
    dev = "cam" /\ tag # "UNKNOWN" /\ SetValueErr(tag, val) = "ok"

\* What the native set call is given, after the ctypes conversion.
SetRaw(tag, val) ==
    CASE tag = "ENUM" -> IF val.ty = "str" THEN <<EnumValue(CStr(val.v))>> ELSE val.v
      [] tag = "BOOL" -> Truth(val.v)
      [] tag = "STRING" -> CStr(val.v)
      [] tag = "COMMAND" -> <<1>>
      [] tag = "REGISTER" -> Pad(val.v, RegSize)
      [] OTHER -> val.v

\* The mock stores what it is given, if it is a value of the property.
NativeAccepts(tag, val) ==
    tag = "ENUM" => IF val.ty = "str" THEN IsEnumName(CStr(val.v)) ELSE IsEnumInt(val.v[1])

SetTrace(dev, tag, val) ==
    <<<<"type_query", 0>>>>
        \o (IF dev = "cam" /\ tag = "REGISTER" /\ Validates(tag, val)
               THEN <<<<"size_query", 0>>>> ELSE <<>>)
        \o (IF IssuesNativeSet(dev, tag, val) THEN <<<<"native_set", 0>>>> ELSE <<>>)

\* set_camera_feature / set_grabber_value; both return None.
SetProp(dev, tag, val) ==
    /\ CallerIdle
    /\ propArg' = [dev |-> dev, tag |-> tag, val |-> val]
    /\ natProp' = IF IssuesNativeSet(dev, tag, val) /\ NativeAccepts(tag, val)
                     THEN [dev |-> dev, tag |-> tag, raw |-> SetRaw(tag, val)]
                     ELSE natProp
    /\ propGot' = [dev |-> "none", tag |-> "none"]
    /\ propResult' = NoneVal
    /\ last' = Op("set", SetErr(dev, tag, val), SetTrace(dev, tag, val))
    /\ UNCHANGED <<bufObjVars, acqVarsButLast, devVars>>

\* get_camera_feature / get_grabber_value
GetProp(dev, tag) ==
    /\ CallerIdle
    /\ propGot' = [dev |-> dev, tag |-> tag]
    /\ propResult' = IF GetErr(dev) = "ok" THEN get_camera_feature(tag) ELSE NoneVal
    /\ last' = Op("get", GetErr(dev), GetTrace(dev, tag))
    /\ UNCHANGED <<natProp, propArg, bufObjVars, acqVarsButLast, devVars>>

\* ------------------------------------------------ pykyfg.model: Buffer
\* Buffer objects, the native buffer handles they wrap, and two of the seven
\* cached attributes (all seven are the same property/functools.cache pair).
BufObjs == 1 .. NumBufObjs
BufHandles == 1 .. MaxBufHandle
Attrs == {"base", "size"}
InfoGens == 1 .. MaxInfoGen

\* What buffer_get_info returns now for attribute a of native buffer h: the
\* native layer refills its buffers, so the answer changes with natInfo[h].
buffer_get_info(h, a) == [h |-> h, attr |-> a, gen |-> natInfo[h]]

\* No entry in the cache.
Miss == [h |-> NoObj, attr |-> "none", gen |-> 0]

\* Mutant: a property without functools.cache.
CacheHit_Never(b, a) == FALSE

\* functools.cache: the key is the Buffer instance, one cache per attribute.
CacheHit(b, a) == bufCache[b][a] # Miss

\* Buffer.__init__
NewBuffer(b, h) ==
    /\ CallerIdle
    /\ bufHandle[b] = NoObj
    /\ \A c \in BufObjs : c < b => bufHandle[c] # NoObj
    /\ bufHandle' = [bufHandle EXCEPT ![b] = h]
    /\ last' = Op("Buffer", "ok", <<>>)
    /\ UNCHANGED <<bufCache, bufQueries, bufFirst, natInfo, bufRead>>
    /\ UNCHANGED <<propVars, acqVarsButLast, devVars>>

\* Reading buffer.base, buffer.size, ...: the wrapped function runs on a miss
\* only, and its result is kept under the instance.
ReadAttr(b, a) ==
    /\ CallerIdle
    /\ bufHandle[b] # NoObj
    /\ LET hit == CacheHit(b, a)
           val == IF hit THEN bufCache[b][a] ELSE buffer_get_info(bufHandle[b], a)
       IN  /\ bufCache' = [bufCache EXCEPT ![b][a] = val]
           /\ bufQueries' = [bufQueries EXCEPT ![b][a] = IF hit THEN @ ELSE @ + 1]
           /\ bufFirst' = [bufFirst EXCEPT ![b][a] = IF bufQueries[b][a] = 0 /\ ~hit
                                                       THEN val ELSE @]
           /\ bufRead' = [obj |-> b, attr |-> a, val |-> val]
           /\ last' = Op("read", "ok",
                         IF hit THEN <<>> ELSE <<<<"buffer_get_info", bufHandle[b]>>>>)
    /\ bufQueries[b][a] < MaxQueries
    /\ UNCHANGED <<bufHandle, natInfo>>
    /\ UNCHANGED <<propVars, acqVarsButLast, devVars>>

\* The native layer refills buffer h.
NativeInfoChange(h) ==
    /\ natInfo[h] < MaxInfoGen
    /\ natInfo' = [natInfo EXCEPT ![h] = @ + 1]
    /\ UNCHANGED <<bufHandle, bufCache, bufQueries, bufFirst, bufRead>>
    /\ UNCHANGED <<propVars, acqVars, devVars>>

InitProp ==
    /\ natProp = [dev |-> "none", tag |-> "none", raw |-> <<>>]
    /\ propArg = [dev |-> "none", tag |-> "none", val |-> NoneVal]
    /\ propGot = [dev |-> "none", tag |-> "none"]
    /\ propResult = NoneVal

InitBuf ==
    /\ bufHandle = [b \in BufObjs |-> NoObj]
    /\ bufCache = [b \in BufObjs |-> [a \in Attrs |-> Miss]]
    /\ bufQueries = [b \in BufObjs |-> [a \in Attrs |-> 0]]
    /\ bufFirst = [b \in BufObjs |-> [a \in Attrs |-> Miss]]
    /\ natInfo = [h \in BufHandles |-> 1]
    /\ bufRead = [obj |-> NoObj, attr |-> "none", val |-> Miss]

\* ------------------------------------------------------ specifications
Init == InitAcq /\ InitDev /\ InitProp /\ InitBuf

\* Acquisition: one camera, its stream scope, the native thread.
Next ==
    \/ \E s \in Streams, h \in HandleKeys : OpenStreamEnter(s, h)
    \/ \E path \in Paths : OpenStreamExit(path)
    \/ \E s \in Streams : s = camStream /\ RegisterCallback(s, "user")
    \/ \E d \in BOOLEAN, b \in BOOLEAN : Start(d, b)
    \/ Stop
    \/ AwaitBegin
    \/ \E o \in WaitOutcomes : AwaitEnd(o)
    \/ \E b \in BOOLEAN : CaptureStart(b)
    \/ \E o \in WaitOutcomes \cup {"nowait"} : CaptureEnd(o)
    \/ \E h \in StreamHandles, base \in {"null", "addr"} : NativeDeliver(h, base)
    \/ CallbackEnter
    \/ CallbackBody
    \/ FinishSet

Spec == Init /\ [][Next]_vars

\* CameraStream objects and CallbackHandles used directly.
NextStream ==
    \/ \E s \in Streams, h \in HandleKeys : StreamAllocate(s, h)
    \/ \E s \in Streams : StreamFree(s)
    \/ \E s \in Streams, h \in HandleKeys : StreamOpenEnter(s, h)
    \/ \E s \in Streams, path \in Paths : StreamOpenExit(s, path)
    \/ \E s \in Streams : RegisterCallback(s, "user")
    \/ \E s \in Streams : ClearCallback(s)
    \/ \E c \in CbIds : Remove(c)

SpecStream == Init /\ [][NextStream]_vars

\* Device handles: the scoped acquisitions and the manual connect/disconnect.
NextDev ==
    \/ \E h \in FgHandles \cup {INVALID_FGHANDLE} : KyConnectFgEnter(h)
    \/ \E path \in Paths : KyConnectFgExit(path)
    \/ \E q \in ScanResults, i \in Indexes, ok \in BOOLEAN : KyConnectCamEnter(q, i, ok)
    \/ \E path \in Paths : KyConnectCamExit(path)
    \/ \E h \in FgHandles \cup {INVALID_FGHANDLE} : FgConnect(h)
    \/ FgDisconnect
    \/ \E h \in FgHandles \cup {INVALID_FGHANDLE} : FgOpenEnter(h)
    \/ \E path \in Paths : FgOpenExit(path)
    \/ \E q \in ScanResults, i \in Indexes : GetCamera(q, i)
    \/ \E ok \in BOOLEAN : CamConnect(ok)
    \/ CamDisconnect
    \/ \E ok \in BOOLEAN : CamOpenEnter(ok)
    \/ \E path \in Paths : CamOpenExit(path)

SpecDev == Init /\ [][NextDev]_vars

\* The five scoped acquisitions, entered and left on each exit path.
NextScope ==
    \/ \E h \in FgHandles \cup {INVALID_FGHANDLE} : KyConnectFgEnter(h)
    \/ \E path \in Paths : KyConnectFgExit(path)
    \/ \E q \in ScanResults, i \in Indexes, ok \in BOOLEAN : KyConnectCamEnter(q, i, ok)
    \/ \E path \in Paths : KyConnectCamExit(path)
    \/ \E h \in FgHandles \cup {INVALID_FGHANDLE} : FgOpenEnter(h)
    \/ \E path \in Paths : FgOpenExit(path)
    \/ \E q \in ScanResults, i \in Indexes : GetCamera(q, i)
    \/ \E ok \in BOOLEAN : CamOpenEnter(ok)
    \/ \E path \in Paths : CamOpenExit(path)
    \/ \E s \in Streams, h \in HandleKeys : StreamOpenEnter(s, h)
    \/ \E s \in Streams, path \in Paths : StreamOpenExit(s, path)

SpecScope == Init /\ [][NextScope]_vars

\* Typed property access on both paths against the mock.
NextProp ==
    \/ \E dev \in Devs, tag \in Tags, val \in PyVals : SetProp(dev, tag, val)
    \/ \E dev \in Devs, tag \in Tags : GetProp(dev, tag)

SpecProp == Init /\ [][NextProp]_vars

\* Buffer objects and their cached attributes.
NextBuf ==
    \/ \E b \in BufObjs, h \in BufHandles : NewBuffer(b, h)
    \/ \E b \in BufObjs, a \in Attrs : ReadAttr(b, a)
    \/ \E h \in BufHandles : NativeInfoChange(h)

SpecBuf == Init /\ [][NextBuf]_vars

\* ================================================================ claims
\* Reading the record of the last operation.
EventNames(trace) == {trace[i][1] : i \in DOMAIN trace}
HasEvent(trace, name) == name \in EventNames(trace)
CountEvent(trace, name) == Cardinality({i \in DOMAIN trace : trace[i][1] = name})
FirstPos(trace, name) == CHOOSE i \in DOMAIN trace :
    trace[i][1] = name /\ \A j \in DOMAIN trace : trace[j][1] = name => i <= j
EventArgs(trace, name) == SelectSeq(trace, LAMBDA e : e[1] = name)
ArgsOf(trace, name) ==
    [i \in 1 .. Len(EventArgs(trace, name)) |-> EventArgs(trace, name)[i][2]]
Finished(op) == last.op = op /\ last.err # "running" /\ last.err # "waiting"

\* C1: remove() is idempotent -- over any sequence of remove() calls on a
\* registered callback's handle (the calls free makes included), exactly one
\* native unregister call is issued for that callback.
C1_RemoveIdempotent == \A c \in CbIds : unregCalls[c] <= 1

\* C2: each scoped acquisition (connect_frame_grabber, connect_camera,
\* FrameGrabber.open, Camera.open, CameraStream.open) runs its release routine
\* exactly once when its body is left, whether normally, by an error or by an
\* interruption, and the handle it held is then no longer held.  For a
\* CameraStream the release is the registry entry and the handle attribute;
\* it is skipped (KeyError) only for a stream whose allocation had failed.
ScopeExitOps ==
    {"connect_frame_grabber.exit", "connect_camera.exit", "FrameGrabber.open.exit",
     "Camera.open.exit", "CameraStream.open.exit"}

ReleaseEvent(op) ==
    CASE op = "connect_frame_grabber.exit" -> "KYFG_Close"
      [] op = "connect_camera.exit" -> "KYFG_CameraClose"
      [] op = "FrameGrabber.open.exit" -> "disconnect"
      [] op = "Camera.open.exit" -> "disconnect"
      [] op = "CameraStream.open.exit" -> "free"

C3_CaptureStops ==
    (Finished("capture") /\ HasEvent(last.trace, "start")) =>
        /\ HasEvent(last.trace, "stop")
        /\ FirstPos(last.trace, "start") < FirstPos(last.trace, "stop")
        /\ ~camWorking
        /\ ~natAcq

C3_Witness ==
    /\ Finished("capture")
    /\ last.err = "Error"
    /\ HasEvent(last.trace, "start")
    /\ HasEvent(last.trace, "stop")

C5_StartWhileWorking ==
    [][(camWorking /\ last' # last /\ last'.op = "start") =>
          /\ last'.err = "AlreadyWorking"
          /\ last'.trace = <<>>
          /\ camWorking'
          /\ UNCHANGED <<natAcq, natCallbacks, stCallbacks, cbVars, camEndEvent>>]_vars

C5_Witness == last.op = "start" /\ last.err = "AlreadyWorking" /\ camWorking

\* C6: stop() on an idle camera fails with NotWorking, issues no native stop
\* and leaves the camera idle.
C6_StopWhileIdle ==
    [][(~camWorking /\ last' # last /\ last'.op = "stop") =>
          /\ last'.err = "NotWorking"
          /\ last'.trace = <<>>
          /\ ~camWorking'
          /\ UNCHANGED <<natAcq, camEndEvent>>]_vars

C6_Witness == last.op = "stop" /\ last.err = "NotWorking" /\ ~camWorking

\* C7: once the default callback has met the null-base buffer of
\* a blocking acquisition, no frame is appended while that acquisition lasts.
C7_NoFrameAfterSentinel ==
    [][(sentinelSeen /\ camWorking /\ camEndEvent # "None") => stFrames' = stFrames]_vars

\* C8: open_stream on a camera whose stream is open fails with StreamBusy,
\* allocates nothing and leaves the first stream as it was.
C8_SecondStreamRefused ==
    [][(camStream # None /\ last' # last /\ last'.op = "open_stream") =>
          /\ last'.err = "StreamBusy"
          /\ last'.trace = <<>>
          /\ UNCHANGED <<streamVars, cbVars, natCallbacks, camStream>>]_vars

C8_Witness ==
    /\ last.op = "open_stream"
    /\ last.err = "StreamBusy"
    /\ camStream # None
    /\ stCallbacks[camStream] # <<>>
    /\ stFrames[camStream] # <<>>

\* C9: an enumeration (get_camera, connect_camera) that scanned succeeds only
\* if the scan found exactly one handle, and then yields that handle; with the
\* default index 0 and one handle it does succeed; with zero or two handles it
\* fails with AmbiguousDevice and opens no camera.
EnumOps == {"get_camera", "connect_camera"}

C9_ExactlyOneCamera ==
    [][(last' # last /\ last'.op \in EnumOps /\ HasEvent(last'.trace, "scan")) =>
          LET n == ArgsOf(last'.trace, "scan")[1]
              found == ArgsOf(last'.trace, "found")
              index == ArgsOf(last'.trace, "index")[1]
          IN  /\ last'.err = "ok" =>
                    /\ n = 1
                    /\ last'.op = "get_camera" => camHandle' = found[1]
                    /\ last'.op = "connect_camera" =>
                           /\ kyCam' = found[1]
                           /\ ArgsOf(last'.trace, "KYFG_CameraOpen2") = <<found[1]>>
              /\ (n = 1 /\ index = 0) => last'.err = "ok"
              /\ n # 1 =>
                    /\ last'.err = "AmbiguousDevice"
                    /\ ~HasEvent(last'.trace, "KYFG_CameraOpen2")
                    /\ UNCHANGED <<camHandle, kyCam, natCamOpen, camReg>>]_vars

C9_Witness ==
    /\ last.op = "get_camera"
    /\ last.err = "AmbiguousDevice"
    /\ ArgsOf(last.trace, "scan") = <<2>>
    /\ camHandle = 7

\* C10: free unregisters every callback of the stream's list, in registration
\* order, before it releases the handle; afterwards none of them is registered
\* in the native layer and the list is empty.
FreeOps == {"free", "CameraStream.open.exit", "open_stream.exit"}

C10_FreeRemovesCallbacksFirst ==
    [][(last' # last /\ last'.op \in FreeOps) =>
          LET s == ArgsOf(last'.trace, "free")[1]
              cbs == stCallbacks[s]
          IN  /\ ArgsOf(last'.trace, "unregister") = cbs
              /\ \A i, j \in DOMAIN cbs : i < j => cbs[i] < cbs[j]
              /\ \A c \in SeqToSet(cbs) : c \notin natCallbacks' /\ unregCalls'[c] > unregCalls[c]
              /\ \A c \in natCallbacks' : cbOwner[c] # s
              /\ stCallbacks'[s] = <<>>
              /\ HasEvent(last'.trace, "release") =>
                    /\ last'.trace[Len(last'.trace)][1] = "release"
                    /\ CountEvent(last'.trace, "release") = 1
                    /\ stHandle'[s] = None
              /\ last'.err \in {"ok", "Error", "KeyboardInterrupt"} =>
                    HasEvent(last'.trace, "release")]_vars

C10_Witness ==
    /\ last.op = "free"
    /\ last.err = "ok"
    /\ CountEvent(last.trace, "unregister") = 2
    /\ HasEvent(last.trace, "release")
    /\ natCallbacks = {}

\* C11: a CameraStream is never partially freed -- a stream whose handle is
\* cleared has an empty callback list, and a stream that free has just been
\* called on has its handle cleared, its callback list empty and no registry
\* entry under the handle it held.
FreedBy(s) == last.op = "free" /\ ArgsOf(last.trace, "free") = <<s>>

C11_NeverPartiallyFreed ==
    \A s \in Streams :
        /\ stHandle[s] = None => stCallbacks[s] = <<>>
        /\ FreedBy(s) => stHandle[s] = None /\ stCallbacks[s] = <<>>

\* C12: every handle in a handle registry (frame grabbers, cameras, streams)
\* is open in the native layer.
C12_RegistryHandlesValid ==
    /\ fgReg \subseteq natFgOpen
    /\ camReg \subseteq natCamOpen
    /\ \A h \in HandleKeys : stReg[h] # NoObj => h \in StreamHandles

\* C14: a native call that reports a non-success status makes the operation
\* fail with NativeCallFailure -- here Camera.connect, whose native open did
\* not open the camera.
C14_StatusChecked ==
    [][(last' # last /\ last'.op = "Camera.connect" /\ camHandle \notin natCamOpen')
          => last'.err = "NativeCallFailure"]_vars

\* C15: an open whose native routine yields the invalid handle fails with
\* DeviceUnavailable, and the invalid handle is neither stored on a wrapper
\* nor entered into a registry.
AllocOps == {"allocate", "CameraStream.open", "open_stream"}

C15_InvalidHandleRefused ==
    /\ INVALID_FGHANDLE \notin fgReg \cup {fgHandle, kyFg}
    /\ (last.op \in AllocOps /\ ArgsOf(last.trace, "alloc") = <<FailHandle>>) =>
           /\ last.err = "DeviceUnavailable"
           /\ stReg[FailHandle] = NoObj
           /\ \A s \in Streams : stHandle[s] # FailHandle

\* C20: capture on a working camera fails with AlreadyWorking, issues no
\* native stop and leaves the camera working.
C20_CaptureWhileWorking ==
    [][(camWorking /\ pc = "idle" /\ last' # last /\ last'.op = "capture") =>
          /\ last'.err = "AlreadyWorking"
          /\ ~HasEvent(last'.trace, "stop")
          /\ camWorking'
          /\ UNCHANGED <<natAcq, camEndEvent>>]_vars

\* C13: set with a value whose type does not match the resolved tag (a bool or
\* str for INT, an int for FLOAT or BOOL, a non-integer for COMMAND, ...) fails
\* with TypeMismatch (Python's TypeError) and issues no native set call.
Matches(tag, val) ==
    CASE tag \in {"INT", "COMMAND"} -> val.ty = "int"
      [] tag = "FLOAT" -> val.ty = "float"
      [] tag = "BOOL" -> val.ty = "bool"
      [] tag = "STRING" -> val.ty = "str"
      [] tag = "ENUM" -> val.ty \in {"int", "str", "tuple"}
      [] tag = "REGISTER" -> val.ty \in {"bytes", "bytearray", "list"}
      [] OTHER -> TRUE

C13_TypeMismatchRefused ==
    (last.op = "set" /\ ~Matches(propArg.tag, propArg.val)) =>
        /\ last.err = "TypeError"
        /\ ~HasEvent(last.trace, "native_set")

\* C16: a get of a property whose tag is UNKNOWN returns None without
\* failing, on the camera path and on the frame grabber path.
C16_UnknownReadsNone ==
    (last.op = "get" /\ propGot.tag = "UNKNOWN") =>
        last.err = "ok" /\ propResult = NoneVal

\* C17: for each of INT, FLOAT, BOOL, STRING, ENUM, REGISTER and each value v
\* of that type, set(h, name, v) followed at once by get(h, name) returns a
\* value equal to v, on both paths.
RoundTripTags == {"INT", "FLOAT", "BOOL", "STRING", "ENUM", "REGISTER"}

ValueOf(tag, val) ==
    CASE tag = "INT" -> val.ty = "int"
      [] tag = "FLOAT" -> val.ty = "float"
      [] tag = "BOOL" -> val.ty = "bool"
      [] tag = "STRING" -> val.ty = "str"
      [] tag = "ENUM" -> val = EnumPair(1)
      [] tag = "REGISTER" -> val.ty = "bytes" /\ Len(val.v) = RegSize
      [] OTHER -> FALSE

\* Python's ==: int and bool compare by number, other values by type and content.
PyEq(a, b) == IF IsInt(a) /\ IsInt(b) THEN a.v = b.v ELSE a = b

GetAfterSet ==
    /\ last.op = "get"
    /\ propArg.dev = propGot.dev
    /\ propArg.tag = propGot.tag

C17_RoundTrip ==
    (GetAfterSet /\ propGot.tag \in RoundTripTags /\ ValueOf(propArg.tag, propArg.val)) =>
        last.err = "ok" /\ PyEq(propResult, propArg.val)

\* C18: a get of an ENUM property returns a pair whose integer and whose
\* symbolic name are the same enumerator.
C18_EnumPairConsistent ==
    (last.op = "get" /\ propGot.tag = "ENUM") =>
        /\ last.err = "ok"
        /\ propResult.ty = "tuple"
        /\ Len(propResult.v) >= 1
        /\ IsEnumInt(propResult.v[1])
        /\ Tail(propResult.v) = EnumName(propResult.v[1])

\* C19: for each Buffer object and attribute at most one native buffer-info
\* query is issued, every read returns the value of that first query, and the
\* value read is one queried for the object's own handle and attribute.
C19_BufferCached ==
    /\ \A b \in BufObjs, a \in Attrs : bufQueries[b][a] <= 1
    /\ last.op = "read" =>
           /\ bufRead.val # Miss
           /\ bufRead.val = bufFirst[bufRead.obj][bufRead.attr]
           /\ bufRead.val.h = bufHandle[bufRead.obj]
           /\ bufRead.val.attr = bufRead.attr

\* A read served from the cache after the native layer refilled the buffer,
\* while a second Buffer object on the same handle holds the newer value.
C19_Witness ==
    /\ last.op = "read"
    /\ last.trace = <<>>
    /\ bufRead.val.gen # natInfo[bufRead.val.h]
    /\ \E c \in BufObjs :
           /\ c # bufRead.obj
           /\ bufHandle[c] = bufHandle[bufRead.obj]
           /\ CacheHit(c, bufRead.attr)
           /\ bufCache[c][bufRead.attr] # bufRead.val

\* C21: whenever the camera is working it has an open, allocated stream:
\* camera.stream is set and that stream's handle is set.  In particular the
\* open_stream scope is never left while the camera is working.
C21_WorkingHasStream ==
    camWorking => camStream # None /\ stHandle[camStream] # None

\* C22: finish_acquisition, running on the native callback thread, never calls
\* set() on an end_event that stop() cleared after finish_acquisition tested it.
C22_FinishNeverOnClearedEvent == ~natErr

\* C23: the default accumulating callback appends to a stream's frames only
\* while the camera's working flag is true.
C23_AppendOnlyWhileWorking ==
    [][(\E s \in Streams : Len(stFrames'[s]) > Len(stFrames[s])) => camWorking]_vars

\* C24: on one stream the default accumulating callback is registered at most
\* once, whatever start, stop and capture calls are made, and a delivered
\* buffer is appended to the stream's frames at most once.
DefaultsOn(s) ==
    {i \in DOMAIN stCallbacks[s] : cbKind[stCallbacks[s][i]] = "default"}

TimesIn(q, x) == Cardinality({i \in DOMAIN q : q[i] = x})

C24_DefaultRegisteredOnce ==
    \A s \in Streams :
        /\ Cardinality(DefaultsOn(s)) <= 1
        /\ \A b \in BufIds : TimesIn(stFrames[s], b) <= 1

\* A capture started on a stream that already carries the default callback
\* from an earlier start, and that has collected a frame: no second registration.
C24_Witness ==
    /\ last.op = "capture"
    /\ last.err = "running"
    /\ ~HasEvent(last.trace, "register")
    /\ camStream # None
    /\ DefaultsOn(camStream) # {}
    /\ stFrames[camStream] # <<>>

====
